---- MODULE Spec2Model ----
(***************************************************************************)
(* Model of src/app.py: the Flask service that applies to one job per      *)
(* POST /apply request by driving a Playwright browser.                    *)
(*                                                                         *)
(* The development server started by app.run (src/app.py:388) serves each  *)
(* request on a thread of its own, so the handlers of overlapping requests *)
(* interleave.  A thread is modelled by its position pc[r] in              *)
(* apply_endpoint and by frame[r], the local variables of the handler and  *)
(* of the functions it calls.  The module globals last_application_time    *)
(* and application_count are shared by all threads.  Time is the wall      *)
(* clock in seconds; every datetime.now() reads it.                        *)
(***************************************************************************)
EXTENDS Integers, Sequences, FiniteSets, TLC

VARIABLES
    now,                    \* the wall clock, seconds
    DEBUG_MODE,             \* src/app.py:21, fixed at start-up
    last_application_time,  \* src/app.py:28
    application_count,      \* src/app.py:29
    pc,                     \* pc[r]: position of request thread r
    frame,                  \* frame[r]: locals of the request on thread r
    response,               \* response[r]: the HTTP answer of the request
    driver,                 \* driver[r]: Playwright driver process of the request
    browser_proc,           \* browser_proc[r]: browser process of the request
    logins,                 \* number of login_to_dice calls so far
    successes,              \* application_number of each success result, in order
    health_req,             \* the GET /health request being served, if any
    call                    \* a function applied on its own: arguments and outcome

vars == <<now, DEBUG_MODE, last_application_time, application_count, pc, frame,
          response, driver, browser_proc, logins, successes, health_req, call>>

(***************************************************************************)
(* Bounds of the exploration.                                              *)
(***************************************************************************)
NumThreads == 2
MaxLogins == 2
MaxTicks == 4
MaxDays == 1
MaxOffsetSteps == 8
HealthPeers == 1
LivePeers == 1

Threads == 1..NumThreads

(***************************************************************************)
(* Program constants.                                                      *)
(***************************************************************************)
MIN_WAIT_BETWEEN_APPS == 120
MAX_WAIT_BETWEEN_APPS == 180
None == -1
SecondsPerDay == 86400

\* The values random.randint(MIN_WAIT_BETWEEN_APPS, MAX_WAIT_BETWEEN_APPS) is
\* drawn from here: both ends and the middle of the range.
RequiredWaits ==
    {MIN_WAIT_BETWEEN_APPS,
     (MIN_WAIT_BETWEEN_APPS + MAX_WAIT_BETWEEN_APPS) \div 2,
     MAX_WAIT_BETWEEN_APPS}

\* The clock advances by half the minimum wait, a minute.
TickSeconds == MIN_WAIT_BETWEEN_APPS \div 2

Deltas == {TickSeconds}

TicksUsed(t) == t \div TickSeconds

(***************************************************************************)
(* timedelta.seconds: the seconds field of a normalised timedelta, which   *)
(* leaves the days out (0 <= seconds < 86400).                             *)
(***************************************************************************)
TimedeltaSeconds(d) == d % SecondsPerDay

(***************************************************************************)
(* enforce_human_pacing, lines 62-69: the seconds to sleep, given the      *)
(* globals, the clock and the sampled required_wait.                       *)
(***************************************************************************)
\* Mutant: the test of line 62 is left out.
PacingWait_NoNoneTest(last, t, required_wait) ==
    LET time_since_last == TimedeltaSeconds(t - last)
    IN  IF time_since_last < required_wait
        THEN required_wait - time_since_last
        ELSE 0

PacingWait(last, t, required_wait) ==
    IF last = None
    THEN 0
    ELSE LET time_since_last == TimedeltaSeconds(t - last)
         IN  IF time_since_last < required_wait
             THEN required_wait - time_since_last
             ELSE 0

(***************************************************************************)
(* wait_for_easy_apply_button, lines 198-232.  A pattern says, for each    *)
(* selector, what the page does when that selector is waited for.          *)
(***************************************************************************)
selectors ==
    <<"button[data-cy='apply-button-card']",
      "button:has-text('Easy Apply')",
      "button:has-text('Apply')">>

CandidateOutcomes == {"ok", "not_visible", "not_enabled", "scroll_fails"}

Patterns == [1..Len(selectors) -> CandidateOutcomes]

\* The patterns in which a candidate either resolves or never becomes visible.
VisiblePatterns == [1..Len(selectors) -> {"ok", "not_visible"}]

NotFoundMessage == "Easy Apply button not found with any selector"

\* The for loop of lines 212-228 from candidate i on: tried is the sequence of
\* candidates attempted so far; handle 0 means the loop fell through.
\* Mutant: the loop does not return at the first candidate found.
RECURSIVE TrySelectors_KeepGoing(_, _, _, _)
TrySelectors_KeepGoing(pattern, i, tried, handle) ==
    IF i > Len(selectors)
    THEN [handle |-> handle, tried |-> tried]
    ELSE TrySelectors_KeepGoing(pattern, i + 1, Append(tried, i),
                                IF pattern[i] = "ok" THEN i ELSE handle)

TrySelectors_LastFound(pattern, i, tried) ==
    TrySelectors_KeepGoing(pattern, i, tried, 0)

RECURSIVE TrySelectors(_, _, _)
TrySelectors(pattern, i, tried) ==
    IF i > Len(selectors)
    THEN [handle |-> 0, tried |-> tried]
    ELSE IF pattern[i] = "ok"
         THEN [handle |-> i, tried |-> Append(tried, i)]
         ELSE TrySelectors(pattern, i + 1, Append(tried, i))

\* The whole function: load_ok is whether wait_for_load_state (line 208)
\* returned, shot_ok whether the screenshot of line 231 could be taken.
\* error "" means the function returned the handle.
wait_for_easy_apply_button(load_ok, pattern, shot_ok) ==
    IF ~load_ok
    THEN [handle |-> 0, tried |-> <<>>, error |-> "load state timeout",
          shots |-> {}]
    ELSE LET found == TrySelectors(pattern, 1, <<>>)
         IN  IF found.handle # 0
             THEN [handle |-> found.handle, tried |-> found.tried,
                   error |-> "", shots |-> {}]
             ELSE IF shot_ok
                  THEN [handle |-> 0, tried |-> found.tried,
                        error |-> NotFoundMessage,
                        shots |-> {"no_easy_apply_button.png"}]
                  ELSE [handle |-> 0, tried |-> found.tried,
                        error |-> "screenshot failed", shots |-> {}]

(***************************************************************************)
(* login_to_dice, lines 137-196.  fail_at is the first step that raises (0 *)
(* when none does), url_ok whether the page URL after the redirect holds   *)
(* "dashboard" or "jobs", shot_ok whether a screenshot can be taken.       *)
(***************************************************************************)
LoginSteps == <<"goto", "email", "continue", "password", "sign_in">>

\* Mutant: the screenshot of the except branch is taken outside a try.
login_to_dice_Unguarded(fail_at, url_ok, shot_ok) ==
    IF fail_at # 0 \/ ~url_ok
    THEN [called |-> TRUE, ret |-> FALSE,
          steps |-> IF fail_at # 0 THEN SubSeq(LoginSteps, 1, fail_at - 1)
                                   ELSE LoginSteps,
          raised |-> ~shot_ok,
          shots |-> IF ~shot_ok THEN {}
                    ELSE IF fail_at # 0 THEN {"login_exception.png"}
                                        ELSE {"login_error.png"}]
    ELSE [called |-> TRUE, ret |-> TRUE, steps |-> LoginSteps,
          raised |-> FALSE, shots |-> {}]

login_to_dice(fail_at, url_ok, shot_ok) ==
    IF fail_at # 0
    THEN \* except branch, lines 190-196
         [called |-> TRUE, ret |-> FALSE,
          steps |-> SubSeq(LoginSteps, 1, fail_at - 1), raised |-> FALSE,
          shots |-> IF shot_ok THEN {"login_exception.png"} ELSE {}]
    ELSE IF url_ok
         THEN [called |-> TRUE, ret |-> TRUE, steps |-> LoginSteps,
               raised |-> FALSE, shots |-> {}]
         ELSE \* lines 185-188; a failing screenshot lands in the except branch,
              \* whose own screenshot then fails the same way
              [called |-> TRUE, ret |-> FALSE, steps |-> LoginSteps,
               raised |-> FALSE,
               shots |-> IF shot_ok THEN {"login_error.png"} ELSE {}]

(***************************************************************************)
(* apply_to_job, lines 234-311.                                            *)
(***************************************************************************)
WorkflowSteps ==
    <<"NavigateToJob", "SimulateReading", "LocateEasyApply", "ClickEasyApply",
      "ReviewForm", "ClickNext", "ClickSubmit">>

NoResult ==
    [status |-> "", error |-> "", application_number |-> 0, keys |-> {},
     shots |-> {}]

\* Mutant: the screenshot of the except branch is taken outside a try.
apply_failure_Unguarded(error, shot_ok) ==
    [raised |-> ~shot_ok,
     result |-> [status |-> "failed", error |-> error, application_number |-> 0,
                 keys |-> {"status", "job_url", "error", "timestamp"},
                 shots |-> IF shot_ok THEN {"error_<time>.png"} ELSE {}]]

\* The except branch, lines 298-311: the screenshot is taken inside a try of
\* its own, and the dictionary returned has no entry for it.
apply_failure(error, shot_ok) ==
    [raised |-> FALSE,
     result |-> [status |-> "failed", error |-> error, application_number |-> 0,
                 keys |-> {"status", "job_url", "error", "timestamp"},
                 shots |-> IF shot_ok THEN {"error_<time>.png"} ELSE {}]]

\* The dictionary of lines 291-296; count is application_count as read there.
apply_success(count) ==
    [status |-> "success", error |-> "", application_number |-> count,
     keys |-> {"status", "job_url", "application_number", "timestamp"},
     shots |-> {}]

(***************************************************************************)
(* The state of a request thread.                                          *)
(***************************************************************************)
NoLogin ==
    [called |-> FALSE, ret |-> FALSE, steps |-> <<>>, raised |-> FALSE,
     shots |-> {}]

NoResolve == [handle |-> 0, tried |-> <<>>, error |-> "", shots |-> {}]

NoResponse == [code |-> 0, status |-> "", message |-> "", application_number |-> 0,
               keys |-> {}]

InitFrame ==
    [paced |-> FALSE,               \* line 324 has been executed
     wake_at |-> 0,                 \* when time.sleep returns at the earliest
     playwright_instance |-> FALSE, \* line 326/331: not None
     browser |-> FALSE,             \* line 327/331: not None
     login |-> NoLogin,             \* what login_to_dice did
     steps_run |-> <<>>,            \* workflow steps entered, in order
     resolve |-> NoResolve,         \* what wait_for_easy_apply_button did
     time_read |-> None,            \* what datetime.now() returned at line 286
     count_read |-> 0,              \* application_count as loaded by line 287
     result |-> NoResult]           \* what apply_to_job returned

NoCall == [fn |-> "none"]

NoHealth == [stage |-> "none"]

Init ==
    /\ now = 0
    /\ DEBUG_MODE \in BOOLEAN
    /\ last_application_time = None
    /\ application_count = 0
    /\ pc = [r \in Threads |-> "idle"]
    /\ frame = [r \in Threads |-> InitFrame]
    /\ response = [r \in Threads |-> NoResponse]
    /\ driver = [r \in Threads |-> "none"]
    /\ browser_proc = [r \in Threads |-> "none"]
    /\ logins = 0
    /\ successes = <<>>
    /\ health_req = NoHealth
    /\ call = NoCall

globals == <<last_application_time, application_count>>
resources == <<driver, browser_proc>>

Goto(r, label) == pc' = [pc EXCEPT ![r] = label]

Answer(r, code, status, message) ==
    response' = [response EXCEPT ![r] =
                    [code |-> code, status |-> status, message |-> message,
                     application_number |-> 0, keys |-> {"status", "message"}]]

(***************************************************************************)
(* The clock.  The program reads it at line 63, in time.sleep (line 69)    *)
(* and at line 286 only, so an advance at any other moment shows as an     *)
(* advance just before the next of these reads: the clock moves when a     *)
(* thread is about to read it.  It moves MaxTicks times, and further while *)
(* a thread sleeps in time.sleep, whose return is the passing of time.     *)
(***************************************************************************)
ReadsClock(r) == pc[r] \in {"enforce_human_pacing", "sleeping", "record"}

Asleep(r) == pc[r] = "sleeping" /\ now < frame[r].wake_at

Tick(d) ==
    /\ \E r \in Threads : ReadsClock(r)
    /\ \/ TicksUsed(now + d) <= MaxTicks
       \/ \E r \in Threads : Asleep(r)
    /\ now' = now + d
    /\ UNCHANGED <<call, health_req, successes, DEBUG_MODE, globals, pc, frame,
                   response, resources, logins>>

(***************************************************************************)
(* apply_endpoint, lines 313-359.                                          *)
(***************************************************************************)
\* Lines 317-321: a request arrives and is served by the first thread that
\* serves no request; without a job_url it is answered 400 before the try
\* block is entered.
Free(r) == pc[r] \in {"idle", "done"}

\* Mutant: the pacing gate is called before the job_url is looked at.
Receive_GateFirst(r, has_url) ==
    /\ Free(r)
    /\ \A q \in Threads : q < r => ~Free(q)
    /\ logins < MaxLogins
    /\ frame' = [frame EXCEPT ![r] = [InitFrame EXCEPT !.paced = TRUE]]
    /\ driver' = [driver EXCEPT ![r] = "none"]
    /\ browser_proc' = [browser_proc EXCEPT ![r] = "none"]
    /\ IF has_url
       THEN /\ Goto(r, "create_browser")
            /\ response' = [response EXCEPT ![r] = NoResponse]
       ELSE /\ Goto(r, "done")
            /\ Answer(r, 400, "error", "No job URL")
    /\ UNCHANGED <<call, health_req, successes, now, DEBUG_MODE, globals, logins>>

Receive(r, has_url) ==
    /\ Free(r)
    /\ \A q \in Threads : q < r => ~Free(q)
    /\ logins < MaxLogins
    /\ frame' = [frame EXCEPT ![r] = InitFrame]
    /\ driver' = [driver EXCEPT ![r] = "none"]
    /\ browser_proc' = [browser_proc EXCEPT ![r] = "none"]
    /\ IF has_url
       THEN /\ Goto(r, "enforce_human_pacing")
            /\ response' = [response EXCEPT ![r] = NoResponse]
       ELSE /\ Goto(r, "done")
            /\ Answer(r, 400, "error", "No job URL")
    /\ UNCHANGED <<call, health_req, successes, now, DEBUG_MODE, globals, logins>>

\* Mutant: the gate stamps the time at which it lets a request through.
EnforcePacing_Stamps(r, required_wait) ==
    /\ pc[r] = "enforce_human_pacing"
    /\ LET wait_time == PacingWait(last_application_time, now, required_wait)
       IN  /\ frame' = [frame EXCEPT ![r].paced = TRUE,
                                     ![r].wake_at =
                                         IF wait_time > 0 THEN now + wait_time ELSE 0]
           /\ Goto(r, IF wait_time > 0 THEN "sleeping" ELSE "create_browser")
           /\ last_application_time' =
                  IF wait_time > 0 THEN last_application_time ELSE now
    /\ UNCHANGED <<call, health_req, successes, now, DEBUG_MODE, application_count,
                   response, resources, logins>>

\* Line 324, enforce_human_pacing up to and including the call of time.sleep.
EnforcePacing(r, required_wait) ==
    /\ pc[r] = "enforce_human_pacing"
    /\ LET wait_time == PacingWait(last_application_time, now, required_wait)
       IN  /\ frame' = [frame EXCEPT ![r].paced = TRUE,
                                     ![r].wake_at =
                                         IF wait_time > 0 THEN now + wait_time ELSE 0]
           /\ Goto(r, IF wait_time > 0 THEN "sleeping" ELSE "create_browser")
    /\ UNCHANGED <<call, health_req, successes, now, DEBUG_MODE, globals, response,
                   resources, logins>>

\* Mutant: the sleep ends only at the very second computed.
Wake_Exact(r) ==
    /\ pc[r] = "sleeping"
    /\ now = frame[r].wake_at
    /\ frame' = [frame EXCEPT ![r].wake_at = 0]
    /\ Goto(r, "create_browser")
    /\ UNCHANGED <<call, health_req, successes, now, DEBUG_MODE, globals, response,
                   resources, logins>>

\* time.sleep(wait_time) returns once wait_time seconds have gone by.
Wake(r) ==
    /\ pc[r] = "sleeping"
    /\ now >= frame[r].wake_at
    /\ frame' = [frame EXCEPT ![r].wake_at = 0]
    /\ Goto(r, "create_browser")
    /\ UNCHANGED <<call, health_req, successes, now, DEBUG_MODE, globals, response,
                   resources, logins>>

\* create_browser, lines 71-135.  env is what the machine does: the driver
\* does not start (line 73), the browser does not launch (lines 83/93), the
\* context or page cannot be set up (lines 112-133), or all succeed.  Outside
\* debug mode line 94 evaluates the undefined name false, which raises before
\* the launch.  An exception leaves the caller's playwright_instance and
\* browser at None (line 331 assigns only when the call returns).
BrowserEnvs == {"ok", "start_fails", "launch_fails", "context_fails"}

create_browser(debug_mode, env) ==
    IF env = "start_fails"
    THEN [raised |-> TRUE, driver |-> "none", browser_proc |-> "none"]
    ELSE IF ~debug_mode \/ env = "launch_fails"
         THEN [raised |-> TRUE, driver |-> "running", browser_proc |-> "none"]
         ELSE IF env = "context_fails"
              THEN [raised |-> TRUE, driver |-> "running",
                    browser_proc |-> "running"]
              ELSE [raised |-> FALSE, driver |-> "running",
                    browser_proc |-> "running"]

\* Lines 330-331, and lines 347-349 when create_browser raises.
CreateBrowser(r, env) ==
    /\ pc[r] = "create_browser"
    /\ LET made == create_browser(DEBUG_MODE, env)
       IN  /\ driver' = [driver EXCEPT ![r] = made.driver]
           /\ browser_proc' = [browser_proc EXCEPT ![r] = made.browser_proc]
           /\ IF made.raised
              THEN /\ Answer(r, 500, "error", "create_browser raised")
                   /\ Goto(r, "cleanup")
                   /\ UNCHANGED frame
              ELSE /\ frame' = [frame EXCEPT ![r].playwright_instance = TRUE,
                                             ![r].browser = TRUE]
                   /\ Goto(r, "login_to_dice")
                   /\ UNCHANGED response
    /\ UNCHANGED <<call, health_req, successes, now, DEBUG_MODE, globals, logins>>

\* Mutant: a request that follows a recorded application goes on with the
\* session of the earlier one and does not log in.
Login_Reuse(r, fail_at, url_ok, shot_ok) ==
    /\ pc[r] = "login_to_dice"
    /\ LET did == login_to_dice(fail_at, url_ok, shot_ok)
       IN  IF application_count > 0
           THEN /\ frame' = [frame EXCEPT ![r].login = login_to_dice(0, TRUE, TRUE)]
                /\ Goto(r, WorkflowSteps[1])
                /\ UNCHANGED <<response, logins>>
           ELSE /\ logins' = logins + 1
                /\ frame' = [frame EXCEPT ![r].login = did]
                /\ IF ~did.ret
                   THEN /\ Answer(r, 500, "error", "Login failed")
                        /\ Goto(r, "cleanup")
                   ELSE /\ Goto(r, WorkflowSteps[1])
                        /\ UNCHANGED response
    /\ UNCHANGED <<call, health_req, successes, now, DEBUG_MODE, globals, resources>>

\* Lines 334-335: the call of login_to_dice and the test of what it returned.
Login(r, fail_at, url_ok, shot_ok) ==
    /\ pc[r] = "login_to_dice"
    /\ logins' = logins + 1
    /\ LET did == login_to_dice(fail_at, url_ok, shot_ok)
       IN  /\ frame' = [frame EXCEPT ![r].login = did]
           /\ IF did.raised
              THEN /\ Answer(r, 500, "error", "login_to_dice raised")
                   /\ Goto(r, "cleanup")
              ELSE IF ~did.ret
                   THEN /\ Answer(r, 500, "error", "Login failed")
                        /\ Goto(r, "cleanup")
                   ELSE /\ Goto(r, WorkflowSteps[1])
                        /\ UNCHANGED response
    /\ UNCHANGED <<call, health_req, successes, now, DEBUG_MODE, globals, resources>>

(***************************************************************************)
(* The steps of apply_to_job (line 338).  A step that raises goes to the   *)
(* except branch, which returns the failed result; were the except branch  *)
(* itself to raise, the exception would reach lines 347-349.               *)
(***************************************************************************)
PageError == "page call raised"

Enter(r, step) == [frame EXCEPT ![r].steps_run = Append(@, step)]

Failed(r, entered, error, shot_ok) ==
    LET f == apply_failure(error, shot_ok)
    IN  IF f.raised
        THEN /\ frame' = entered
             /\ Answer(r, 500, "error", "apply_to_job raised")
             /\ Goto(r, "cleanup")
        ELSE /\ frame' = [entered EXCEPT ![r].result = f.result]
             /\ Goto(r, "respond")
             /\ UNCHANGED response

\* Mutant: a step that raises is tried again.
PageStep_Retry(r, step, next, ok, shot_ok) ==
    /\ pc[r] = step
    /\ frame' = Enter(r, step)
    /\ Goto(r, IF ok \/ Len(frame[r].steps_run) >= Len(WorkflowSteps)
                THEN next ELSE step)
    /\ UNCHANGED response
    /\ UNCHANGED <<call, health_req, successes, now, DEBUG_MODE, globals, resources,
                   logins>>

\* A step made of page calls that either all return or raise.
PageStep(r, step, next, ok, shot_ok) ==
    /\ pc[r] = step
    /\ IF ok
       THEN /\ frame' = Enter(r, step)
            /\ Goto(r, next)
            /\ UNCHANGED response
       ELSE Failed(r, Enter(r, step), PageError, shot_ok)
    /\ UNCHANGED <<call, health_req, successes, now, DEBUG_MODE, globals, resources,
                   logins>>

\* Lines 243-246.
NavigateToJob(r, ok, shot_ok) ==
    PageStep(r, "NavigateToJob", "SimulateReading", ok, shot_ok)

\* Lines 250-251: human_mouse_movement (lines 44-56) catches what its page
\* calls raise, so the step always completes.
SimulateReading(r) ==
    PageStep(r, "SimulateReading", "LocateEasyApply", TRUE, TRUE)

\* Line 255.
LocateEasyApply(r, load_ok, pattern, shot_ok, shot2_ok) ==
    /\ pc[r] = "LocateEasyApply"
    /\ LET found == wait_for_easy_apply_button(load_ok, pattern, shot_ok)
           entered == [Enter(r, "LocateEasyApply") EXCEPT ![r].resolve = found]
       IN  IF found.error = ""
           THEN /\ frame' = entered
                /\ Goto(r, "ClickEasyApply")
                /\ UNCHANGED response
           ELSE Failed(r, entered, found.error, shot2_ok)
    /\ UNCHANGED <<call, health_req, successes, now, DEBUG_MODE, globals, resources,
                   logins>>

\* Lines 258-260.
ClickEasyApply(r, ok, shot_ok) ==
    PageStep(r, "ClickEasyApply", "ReviewForm", ok, shot_ok)

\* Lines 264-265.
ReviewForm(r) ==
    PageStep(r, "ReviewForm", "ClickNext", TRUE, TRUE)

\* Lines 269-274.
ClickNext(r, ok, shot_ok) ==
    PageStep(r, "ClickNext", "ClickSubmit", ok, shot_ok)

\* Lines 278-283.
ClickSubmit(r, ok, shot_ok) ==
    PageStep(r, "ClickSubmit", "record", ok, shot_ok)

\* Line 286, the call: datetime.now() returns the time on the clock.  The
\* value is stored by the next instruction of the thread, and another thread
\* may run between the two.
ReadTime(r) ==
    /\ pc[r] = "record"
    /\ frame' = [frame EXCEPT ![r].time_read = now]
    /\ Goto(r, "store_time")
    /\ UNCHANGED <<call, health_req, successes, now, DEBUG_MODE, globals, response,
                   resources, logins>>

\* Line 286, the store, and the load of application_count that begins line 287.
RecordTime(r) ==
    /\ pc[r] = "store_time"
    /\ last_application_time' = frame[r].time_read
    /\ frame' = [frame EXCEPT ![r].count_read = application_count]
    /\ Goto(r, "store")
    /\ UNCHANGED <<call, health_req, successes, now, DEBUG_MODE, application_count,
                   response, resources, logins>>

\* The store that ends line 287: application_count += 1 is a load, an add and
\* a store, and another thread may run between the load and the store.
StoreCount(r) ==
    /\ pc[r] = "store"
    /\ application_count' = frame[r].count_read + 1
    /\ Goto(r, "return_success")
    /\ UNCHANGED <<call, health_req, successes, now, DEBUG_MODE,
                   last_application_time, frame, response,
                   resources, logins>>

\* Lines 289-296: the result is built from application_count as it is now.
ReturnSuccess(r) ==
    /\ pc[r] = "return_success"
    /\ frame' = [frame EXCEPT ![r].result = apply_success(application_count)]
    /\ successes' = Append(successes, application_count)
    /\ Goto(r, "respond")
    /\ UNCHANGED <<call, health_req, now, DEBUG_MODE, globals, response, resources,
                   logins>>

\* Lines 340-345: the result of apply_to_job is answered with status 200.
Respond(r) ==
    /\ pc[r] = "respond"
    /\ response' = [response EXCEPT ![r] =
                       [code |-> 200, status |-> frame[r].result.status,
                        message |-> frame[r].result.error,
                        application_number |-> frame[r].result.application_number,
                        keys |-> frame[r].result.keys]]
    /\ Goto(r, "cleanup")
    /\ UNCHANGED <<call, health_req, successes, now, DEBUG_MODE, globals, frame,
                   resources, logins>>

\* Mutant: the cleanup is not in a finally block, so the return of line 335
\* leaves it out.
cleanup_NotFinally(f, proc, drv) ==
    IF f.login.called /\ ~f.login.ret
    THEN [browser_proc |-> proc, driver |-> drv]
    ELSE [browser_proc |-> IF f.browser THEN "closed" ELSE proc,
          driver |-> IF f.playwright_instance THEN "stopped" ELSE drv]

\* The finally block, lines 351-359, on the handler's own browser and
\* playwright_instance; browser.close() and stop() are taken to succeed.
cleanup(f, proc, drv) ==
    [browser_proc |-> IF f.browser THEN "closed" ELSE proc,
     driver |-> IF f.playwright_instance THEN "stopped" ELSE drv]

Cleanup(r) ==
    /\ pc[r] = "cleanup"
    /\ LET c == cleanup(frame[r], browser_proc[r], driver[r])
       IN  /\ browser_proc' = [browser_proc EXCEPT ![r] = c.browser_proc]
           /\ driver' = [driver EXCEPT ![r] = c.driver]
    /\ frame' = [frame EXCEPT ![r] = [InitFrame EXCEPT !.paced = frame[r].paced]]
    /\ Goto(r, "done")
    /\ UNCHANGED <<call, health_req, successes, now, DEBUG_MODE, globals, response,
                   logins>>

(***************************************************************************)
(* health, lines 361-369, served on a thread of its own.  The dictionary   *)
(* is built by reading application_count (line 367) and then               *)
(* last_application_time (line 368); another thread may run between the    *)
(* two reads.  The answer is kept until the next GET /health arrives.      *)
(***************************************************************************)
\* Line 367.
HealthCount ==
    /\ health_req.stage # "count_read"
    /\ health_req' = [stage |-> "count_read",
                      applications_count |-> application_count]
    /\ UNCHANGED <<call, now, DEBUG_MODE, globals, pc, frame, response, resources,
                   logins, successes>>

\* Line 368 and the return.
HealthAnswer ==
    /\ health_req.stage = "count_read"
    /\ health_req' = [stage |-> "answered",
                      status |-> "running",
                      debug_mode |-> DEBUG_MODE,
                      applications_count |-> health_req.applications_count,
                      last_application |-> last_application_time]
    /\ UNCHANGED <<call, now, DEBUG_MODE, globals, pc, frame, response, resources,
                   logins, successes>>

\* A step of the apply request on thread r.
Step(r) ==
    \/ \E has_url \in BOOLEAN : Receive(r, has_url)
    \/ \E required_wait \in RequiredWaits : EnforcePacing(r, required_wait)
    \/ Wake(r)
    \/ \E env \in BrowserEnvs : CreateBrowser(r, env)
    \/ \E fail_at \in 0..Len(LoginSteps), url_ok, shot_ok \in BOOLEAN :
           Login(r, fail_at, url_ok, shot_ok)
    \/ \E ok, shot_ok \in BOOLEAN : NavigateToJob(r, ok, shot_ok)
    \/ SimulateReading(r)
    \/ \E load_ok, shot_ok, shot2_ok \in BOOLEAN, pattern \in VisiblePatterns :
           LocateEasyApply(r, load_ok, pattern, shot_ok, shot2_ok)
    \/ \E ok, shot_ok \in BOOLEAN : ClickEasyApply(r, ok, shot_ok)
    \/ ReviewForm(r)
    \/ \E ok, shot_ok \in BOOLEAN : ClickNext(r, ok, shot_ok)
    \/ \E ok, shot_ok \in BOOLEAN : ClickSubmit(r, ok, shot_ok)
    \/ ReadTime(r)
    \/ RecordTime(r)
    \/ StoreCount(r)
    \/ ReturnSuccess(r)
    \/ Respond(r)
    \/ Cleanup(r)

Next ==
    \/ \E d \in Deltas : Tick(d)
    \/ \E r \in Threads : Step(r)

Spec == Init /\ [][Next]_vars

(***************************************************************************)
(* Scheduling.  The operating system runs every thread that can take a     *)
(* step, a call into the browser returns or raises at its timeout, and the *)
(* clock goes on: each request thread's steps after its arrival, and the   *)
(* clock, are weakly fair.  The arrival of requests is not.  Requests are  *)
(* served on the first LivePeers threads.                                  *)
(***************************************************************************)
Progress(r) ==
    \/ \E required_wait \in RequiredWaits : EnforcePacing(r, required_wait)
    \/ Wake(r)
    \/ \E env \in BrowserEnvs : CreateBrowser(r, env)
    \/ \E fail_at \in 0..Len(LoginSteps), url_ok, shot_ok \in BOOLEAN :
           Login(r, fail_at, url_ok, shot_ok)
    \/ \E ok, shot_ok \in BOOLEAN : NavigateToJob(r, ok, shot_ok)
    \/ SimulateReading(r)
    \/ \E load_ok, shot_ok, shot2_ok \in BOOLEAN, pattern \in VisiblePatterns :
           LocateEasyApply(r, load_ok, pattern, shot_ok, shot2_ok)
    \/ \E ok, shot_ok \in BOOLEAN : ClickEasyApply(r, ok, shot_ok)
    \/ ReviewForm(r)
    \/ \E ok, shot_ok \in BOOLEAN : ClickNext(r, ok, shot_ok)
    \/ \E ok, shot_ok \in BOOLEAN : ClickSubmit(r, ok, shot_ok)
    \/ ReadTime(r)
    \/ RecordTime(r)
    \/ StoreCount(r)
    \/ ReturnSuccess(r)
    \/ Respond(r)
    \/ Cleanup(r)

FairNext ==
    \/ \E d \in Deltas : Tick(d)
    \/ \E r \in 1..LivePeers : Step(r)

Fairness ==
    /\ WF_vars(\E d \in Deltas : Tick(d))
    /\ \A r \in 1..LivePeers : WF_vars(Progress(r))

SpecFair == Init /\ [][FairNext]_vars /\ Fairness

(***************************************************************************)
(* The service with GET /health requests arriving while apply requests are *)
(* served on the first HealthPeers threads.                                *)
(***************************************************************************)
HealthNext ==
    \/ \E d \in Deltas : Tick(d)
    \/ HealthCount
    \/ HealthAnswer
    \/ \E r \in 1..HealthPeers : Step(r)

SpecHealth == Init /\ [][HealthNext]_vars

(***************************************************************************)
(* The functions applied on their own, once, to arguments drawn from       *)
(* bounded sets: call records the arguments and what the function did.     *)
(***************************************************************************)
SampleStep == MIN_WAIT_BETWEEN_APPS \div 4

\* Elapsed times since the last application: up to MaxDays whole days plus a
\* few minutes, in steps of half a minute.
ElapsedTimes ==
    {d * SecondsPerDay + k * SampleStep : d \in 0..MaxDays, k \in 0..MaxOffsetSteps}

LastTimes == {None, 0, TickSeconds}

CallPacing(last, elapsed, required_wait) ==
    /\ call = NoCall
    /\ call' = [fn |-> "enforce_human_pacing",
                last |-> last,
                now |-> IF last = None THEN elapsed ELSE last + elapsed,
                required_wait |-> required_wait,
                wait_time |-> PacingWait(last,
                                         IF last = None THEN elapsed
                                                        ELSE last + elapsed,
                                         required_wait)]
    /\ UNCHANGED <<now, DEBUG_MODE, globals, pc, frame, response, resources, logins,
                   health_req, successes>>

CallResolver(load_ok, pattern, shot_ok) ==
    /\ call = NoCall
    /\ call' = [fn |-> "wait_for_easy_apply_button",
                load_ok |-> load_ok, pattern |-> pattern, shot_ok |-> shot_ok,
                out |-> wait_for_easy_apply_button(load_ok, pattern, shot_ok)]
    /\ UNCHANGED <<now, DEBUG_MODE, globals, pc, frame, response, resources, logins,
                   health_req, successes>>

CallLogin(fail_at, url_ok, shot_ok) ==
    /\ call = NoCall
    /\ call' = [fn |-> "login_to_dice",
                fail_at |-> fail_at, url_ok |-> url_ok, shot_ok |-> shot_ok,
                out |-> login_to_dice(fail_at, url_ok, shot_ok)]
    /\ UNCHANGED <<now, DEBUG_MODE, globals, pc, frame, response, resources, logins,
                   health_req, successes>>

CallsNext ==
    \/ \E last \in LastTimes, elapsed \in ElapsedTimes,
          required_wait \in MIN_WAIT_BETWEEN_APPS..MAX_WAIT_BETWEEN_APPS :
           CallPacing(last, elapsed, required_wait)
    \/ \E load_ok, shot_ok \in BOOLEAN, pattern \in Patterns :
           CallResolver(load_ok, pattern, shot_ok)
    \/ \E fail_at \in 0..Len(LoginSteps), url_ok, shot_ok \in BOOLEAN :
           CallLogin(fail_at, url_ok, shot_ok)

SpecCalls == Init /\ [][CallsNext]_vars

(***************************************************************************)
(* Properties.                                                             *)
(***************************************************************************)
InFlight(r) == ~Free(r)

InWorkflow(r) ==
    pc[r] \in {WorkflowSteps[i] : i \in 1..Len(WorkflowSteps)}
              \cup {"record", "store_time", "store", "return_success"}

\* C1: pacing rule.  For a last application at t0 and a request at t0 + D, with
\* the required wait R sampled in [MIN_WAIT_BETWEEN_APPS, MAX_WAIT_BETWEEN_APPS]:
\* if D < R the gate blocks for at least R - D seconds, and if D >= R, also
\* when D is a day or more, it does not block.
C1_PacingRule ==
    (call.fn = "enforce_human_pacing" /\ call.last # None) =>
        LET D == call.now - call.last
            R == call.required_wait
        IN  /\ D < R => call.wait_time >= R - D
            /\ D >= R => call.wait_time = 0

\* C2: the pacing gate has run for every request that carries a job_url before
\* a browser is started, a login is attempted or an answer other than 400 is
\* given; and while no application has been recorded the gate imposes no wait.
C2_GateFirst ==
    \A r \in Threads :
        /\ (\/ pc[r] \notin {"idle", "done", "enforce_human_pacing"}
            \/ driver[r] # "none"
            \/ browser_proc[r] # "none"
            \/ frame[r].login.called
            \/ response[r].code \in {200, 500}) => frame[r].paced
        /\ pc[r] = "enforce_human_pacing" =>
               /\ driver[r] = "none" /\ browser_proc[r] = "none"
               /\ ~frame[r].login.called
        /\ last_application_time = None =>
               pc[r] # "sleeping" /\ frame[r].wake_at = 0

C2_Witness ==
    \E r \in Threads :
        /\ pc[r] = "login_to_dice"
        /\ browser_proc[r] = "running"
        /\ frame[r].paced
        /\ last_application_time = None

\* C3: any two consecutive recorded submissions are at least
\* MIN_WAIT_BETWEEN_APPS seconds apart, also when requests overlap.
C3_MinimumSpacing ==
    [][(last_application_time # None /\ last_application_time' # last_application_time)
           => last_application_time' - last_application_time >= MIN_WAIT_BETWEEN_APPS]_vars

Sequential == \A r \in Threads : r # 1 => pc[r] = "idle"

\* C4 as stated: an apply request that follows a successful one, within quota
\* and max duration, reuses the session: two consecutive successful apply
\* requests perform exactly one login in total.
C4_SessionReuse ==
    (Sequential /\ application_count = 2 /\ logins <= 2) => logins = 1

\* C4 as amended: no request reuses a session.  Every request whose workflow
\* runs has launched its own browser and performed its own login, so there are
\* at least as many logins as recorded applications (two consecutive successful
\* apply requests perform two logins).
C4_SessionPerRequest ==
    /\ \A r \in Threads :
           (InWorkflow(r) \/ pc[r] = "respond") =>
               /\ frame[r].login.called /\ frame[r].login.ret
               /\ frame[r].browser /\ frame[r].playwright_instance
               /\ browser_proc[r] = "running" /\ driver[r] = "running"
    /\ application_count <= logins

C4_Witness == Sequential /\ application_count = 2 /\ logins = 2 /\ pc[1] = "done"

\* C6: at most one live browser session exists process-wide and at most one
\* apply operation is in flight, also when requests overlap.
C6_SingleSession ==
    /\ Cardinality({r \in Threads : browser_proc[r] = "running"}) <= 1
    /\ Cardinality({r \in Threads : InFlight(r)}) <= 1

\* C7: when login_to_dice returns False the request is answered 500 with
\* status "error" and message "Login failed", apply_to_job is not invoked,
\* no step of the request (from its arrival to the end of its cleanup)
\* changes application_count or last_application_time, and the browser of the
\* request is closed.
LoginFailed(r) == frame[r].login.called /\ ~frame[r].login.ret

OutsideWorkflow ==
    {"idle", "done", "enforce_human_pacing", "sleeping", "create_browser",
     "login_to_dice", "cleanup"}

C7_LoginFailure ==
    /\ [](\A r \in Threads :
              /\ LoginFailed(r) =>
                     /\ pc[r] = "cleanup"
                     /\ response[r].code = 500
                     /\ response[r].status = "error"
                     /\ response[r].message = "Login failed"
                     /\ frame[r].steps_run = <<>>
                     /\ frame[r].result = NoResult
              /\ (pc[r] = "done" /\ response[r].message = "Login failed") =>
                     /\ response[r].code = 500
                     /\ browser_proc[r] = "closed"
                     /\ frame[r].steps_run = <<>>)
    /\ [][\A r \in Threads :
              (pc'[r] # pc[r] /\ pc[r] \in OutsideWorkflow) => UNCHANGED globals]_vars

C7_Witness ==
    \E r \in Threads :
        /\ pc[r] = "done"
        /\ response[r].message = "Login failed"
        /\ browser_proc[r] = "closed"

\* C8: apply_to_job raises nothing.  Whatever step raises, and whether or not
\* the screenshot of the except branch can be taken, it returns one result
\* whose status is "failed", with the job URL and an error string; every
\* invocation returns a result whose status is "success" or "failed", and the
\* request is answered 200 with it.
Invoked(r) == frame[r].steps_run # <<>>

C8_WorkflowContained ==
    \A r \in Threads :
        /\ response[r].message # "apply_to_job raised"
        /\ (Invoked(r) /\ pc[r] \in {"respond", "cleanup"}) =>
               /\ frame[r].result.status \in {"success", "failed"}
               /\ frame[r].result.status = "failed" =>
                      /\ {"job_url", "error"} \subseteq frame[r].result.keys
                      /\ frame[r].result.error # ""
                      /\ Len(frame[r].steps_run) <= Len(WorkflowSteps)
               /\ frame[r].result.status = "success" =>
                      frame[r].steps_run = WorkflowSteps
        /\ (Invoked(r) /\ pc[r] = "cleanup") =>
               /\ response[r].code = 200
               /\ response[r].status = frame[r].result.status
        /\ frame[r].result # NoResult => Invoked(r)

C8_Witness ==
    \E r \in Threads :
        /\ pc[r] = "cleanup"
        /\ frame[r].steps_run = <<"NavigateToJob">>
        /\ frame[r].result.status = "failed"
        /\ frame[r].result.shots = {}
        /\ response[r].code = 200

\* C9: when none of the three Easy Apply candidates resolves, a screenshot is
\* captured before the error propagates, and the workflow returns a result
\* with status "failed", the error "Easy Apply button not found ...", and a
\* screenshot reference.
Exhausted(r) ==
    /\ frame[r].resolve.handle = 0
    /\ Len(frame[r].resolve.tried) = Len(selectors)

C9_ResolverExhaustion ==
    \A r \in Threads :
        (Exhausted(r) /\ pc[r] = "respond") =>
            /\ frame[r].resolve.shots # {}
            /\ frame[r].result.status = "failed"
            /\ frame[r].result.error = NotFoundMessage
            /\ "screenshot" \in frame[r].result.keys

\* C10: wait_for_easy_apply_button tries the selectors in list order and
\* returns the first candidate that resolves: for every pattern of resolving
\* candidates the handle returned is that of the lowest-index resolving one and
\* the candidates tried are exactly those up to it; when none resolves, all
\* are tried, in order, and the function raises.
Resolving(pattern) == {i \in DOMAIN pattern : pattern[i] = "ok"}

Lowest(S) == CHOOSE i \in S : \A j \in S : i <= j

C10_ResolverOrder ==
    (call.fn = "wait_for_easy_apply_button" /\ call.load_ok) =>
        LET ok == Resolving(call.pattern)
        IN  IF ok = {}
            THEN /\ call.out.handle = 0
                 /\ call.out.error # ""
                 /\ call.out.tried = [i \in 1..Len(selectors) |-> i]
            ELSE /\ call.out.handle = Lowest(ok)
                 /\ call.out.error = ""
                 /\ call.out.tried = [i \in 1..Lowest(ok) |-> i]

C10_Witness ==
    /\ call.fn = "wait_for_easy_apply_button"
    /\ call.load_ok
    /\ call.pattern[1] = "not_visible"
    /\ call.pattern[2] = "ok"
    /\ call.pattern[3] = "ok"
    /\ call.out.handle = 2
    /\ call.out.tried = <<1, 2>>

\* C11: recording a success.  When the Submit click has completed, the request
\* sets last_application_time to the time it read at line 286, its line 287
\* makes application_count one more than it was, and the result it returns
\* has status "success" and the application_number its own increment
\* produced; the first success result of a fresh process is answered 200
\* with application_number 1 after the login and the seven workflow steps.
Recording ==
    \A r \in Threads :
        /\ (pc[r] = "store_time" /\ pc'[r] = "store") =>
               /\ frame[r].steps_run = WorkflowSteps
               /\ last_application_time' = frame[r].time_read
               /\ frame[r].time_read <= now
        /\ (pc[r] = "store" /\ pc'[r] = "return_success") =>
               application_count' = application_count + 1
        /\ (pc[r] = "return_success" /\ pc'[r] = "respond") =>
               /\ frame'[r].result.status = "success"
               /\ frame'[r].result.application_number = frame[r].count_read + 1
               /\ frame'[r].result.application_number = application_count

FirstSuccess(r) ==
    /\ pc[r] = "cleanup"
    /\ frame[r].result.status = "success"
    /\ Len(successes) = 1

C11_RecordSuccess ==
    /\ [](\A r \in Threads :
              FirstSuccess(r) =>
                  /\ response[r].code = 200
                  /\ response[r].status = "success"
                  /\ response[r].application_number = 1
                  /\ frame[r].login.ret
                  /\ frame[r].steps_run = WorkflowSteps
                  /\ browser_proc[r] = "running")
    /\ [][Recording]_vars

\* C12: missing job URL.  A request without a job_url is answered 400 with
\* the error payload {status: "error", message: "No job URL"}; for it the
\* pacing gate has not run, no driver or browser was started and no login
\* attempted, and the step that answers it leaves application_count and
\* last_application_time as they were.
Rejected(r) == response[r].code = 400

LaunchFailed(r) == response[r].message = "create_browser raised"

C13_ResourceRelease ==
    \A r \in Threads :
        /\ pc[r] = "done" =>
               /\ driver[r] \in {"none", "stopped"}
               /\ browser_proc[r] \in {"none", "closed"}
        /\ (LaunchFailed(r) /\ pc[r] = "cleanup") =>
               /\ response[r].code = 500
               /\ ~frame[r].login.called
               /\ frame[r].steps_run = <<>>
               /\ frame[r].result = NoResult

\* C14: workflow step order without retry.  Within one apply_to_job
\* invocation the steps are entered in the order NavigateToJob,
\* SimulateReading, LocateEasyApply, ClickEasyApply, ReviewForm, ClickNext,
\* ClickSubmit, then the recording; each at most once and only when all the
\* earlier ones completed (Submit is not clicked unless Easy Apply and Next
\* were); after a step has raised no further step is entered, nothing is
\* recorded, and the invocation ends with the failed result.
IsPrefix(s, t) == Len(s) <= Len(t) /\ s = SubSeq(t, 1, Len(s))

RecordingPcs == {"record", "store_time", "store", "return_success"}

StepOrder(r) ==
    /\ IsPrefix(frame[r].steps_run, WorkflowSteps)
    /\ \A i \in 1..Len(WorkflowSteps) :
           pc[r] = WorkflowSteps[i] =>
               /\ frame[r].steps_run = SubSeq(WorkflowSteps, 1, i - 1)
               /\ frame[r].result = NoResult
    /\ pc[r] \in RecordingPcs =>
           /\ frame[r].steps_run = WorkflowSteps
           /\ frame[r].result = NoResult
    /\ frame[r].result.status = "success" => frame[r].steps_run = WorkflowSteps
    /\ frame[r].result.status = "failed" => pc[r] \in {"respond", "cleanup"}

NoRetry(r) ==
    /\ frame'[r].steps_run # frame[r].steps_run =>
           \/ /\ InWorkflow(r)
              /\ frame'[r].steps_run = Append(frame[r].steps_run, pc[r])
              /\ pc'[r] # pc[r]
           \/ /\ pc[r] = "cleanup"
              /\ frame'[r].steps_run = <<>>
    /\ frame[r].result.status = "failed" =>
           /\ frame'[r].steps_run \in {frame[r].steps_run, <<>>}
           /\ pc'[r] \in {"respond", "cleanup", "done"}
           /\ frame'[r].result \in {frame[r].result, NoResult}

C14_StepOrder ==
    /\ [](\A r \in Threads : StepOrder(r))
    /\ [][\A r \in Threads : NoRetry(r)]_vars

\* The Next click raised after Easy Apply was clicked: Submit is not entered.
C14_Witness ==
    \E r \in Threads :
        /\ pc[r] = "cleanup"
        /\ frame[r].steps_run = SubSeq(WorkflowSteps, 1, 6)
        /\ frame[r].result.status = "failed"
        /\ response[r].code = 200

\* C15: login outcome.  login_to_dice raises nothing; it returns True exactly
\* when all five login steps completed and the page URL holds "dashboard" or
\* "jobs"; when a step raises or the URL check fails it returns False, also
\* when the screenshot cannot be taken; the steps of the sequence are
\* attempted once, in order, up to the first that raises.
C15_LoginOutcome ==
    call.fn = "login_to_dice" =>
        /\ call.out.called
        /\ ~call.out.raised
        /\ call.out.ret <=> (call.fail_at = 0 /\ call.url_ok)
        /\ IsPrefix(call.out.steps, LoginSteps)
        /\ call.fail_at = 0 => call.out.steps = LoginSteps
        /\ call.fail_at # 0 => Len(call.out.steps) = call.fail_at - 1
        /\ call.out.ret => call.out.shots = {}

\* The URL check fails and the screenshot of line 187 cannot be taken.
C15_Witness ==
    /\ call.fn = "login_to_dice"
    /\ call.fail_at = 0
    /\ ~call.url_ok
    /\ ~call.shot_ok
    /\ ~call.out.ret
    /\ ~call.out.raised

\* C16: the counters are changed only at the end of a workflow attempt.  A
\* step changes last_application_time or application_count only when it is
\* line 286 or line 287 of an apply_to_job invocation whose Submit step has
\* completed; the steps of the pacing gate, of session creation, of the
\* login, of the element resolution, of the health check and of an attempt
\* that ends in Failed leave both as they were.
RecordsNow(r) ==
    /\ pc[r] \in {"store_time", "store"}
    /\ pc'[r] # pc[r]
    /\ frame[r].steps_run = WorkflowSteps
    /\ frame[r].result = NoResult

CountersFrame ==
    /\ globals' # globals => \E r \in Threads : RecordsNow(r)
    /\ health_req' # health_req => UNCHANGED globals
    /\ \A r \in Threads :
           (pc'[r] # pc[r] /\ ~RecordsNow(r)) => UNCHANGED globals
    /\ \A r \in Threads :
           (/\ pc'[r] # pc[r]
            /\ \/ frame[r].result.status = "failed"
               \/ frame'[r].result.status = "failed") => UNCHANGED globals

C16_CountersFrame == [][CountersFrame]_vars

\* After an application was recorded, the element resolution of a later
\* attempt has failed and the health check has answered.
C16_Witness ==
    /\ application_count = 1
    /\ health_req.stage = "answered"
    /\ health_req.applications_count = 1
    /\ \E r \in Threads :
           /\ pc[r] = "cleanup"
           /\ frame[r].result.status = "failed"
           /\ frame[r].steps_run = SubSeq(WorkflowSteps, 1, 3)

\* C17: the pacing timestamp never goes backwards.  Across every sequence
\* and interleaving of apply requests, once last_application_time holds a
\* time each later value is a time greater than or equal to it; it is not
\* reset to None.
C17_TimestampMonotonic ==
    [][last_application_time # None =>
           /\ last_application_time' # None
           /\ last_application_time' >= last_application_time]_vars

\* C18: every apply request eventually returns a response.  With every
\* browser call returning or raising at its timeout and the pacing sleep
\* finite, a request that has arrived reaches an answer (400, 500, or 200
\* with a success or failed result) and, once it has entered the try block,
\* the end of the finally block; no step waits forever or loops.
Answered(r) ==
    /\ pc[r] = "done"
    /\ response[r].code \in {200, 400, 500}
    /\ response[r].code = 200 => response[r].status \in {"success", "failed"}

ThroughFinally(r) ==
    (pc'[r] = "done" /\ pc[r] # "done" /\ response'[r].code # 400) =>
        (pc[r] = "cleanup" /\ response[r].code \in {200, 500})

C19_UniqueNumbers ==
    /\ \A i, j \in 1..Len(successes) : i # j => successes[i] # successes[j]
    /\ \A k \in 1..Len(successes) : successes[k] = k
    /\ (\A r \in Threads : pc[r] # "return_success") =>
           application_count = Len(successes)

\* C20: health consistency.  Whenever the health check answers, the
\* applications_count it reports is the number of successful applications
\* recorded so far, and the last_application it reports is null exactly when
\* that count is 0.
HealthAnswers == health_req.stage = "count_read" /\ health_req'.stage = "answered"

Quiet == \A r \in Threads : pc[r] \notin {"store_time", "store", "return_success"}

C20_HealthConsistency ==
    [][HealthAnswers =>
           /\ (health_req'.last_application = None) <=>
                  (health_req'.applications_count = 0)
           /\ Quiet => health_req'.applications_count = Len(successes)]_vars

====
